---------------------------- MODULE Spec2Model ----------------------------
(***************************************************************************)
(* A model of train_angle.py: the argument record, the four dataset        *)
(* loaders (load_data, load_stsb_llm, load_nli_data, load_csts_data), the  *)
(* dataset assembly and the mode dispatch (train / test / test_csts).      *)
(*                                                                         *)
(* Text is a sequence of one-character strings, so that str.strip() and    *)
(* str.split() are computed and not assumed.  A Python number is a tagged  *)
(* record: IntV(n) is the int n, FltV(k) is the float k/10.  An optional     *)
(* value is NONE (Python None) or Some(v).                                 *)
(***************************************************************************)
EXTENDS Integers, Sequences, FiniteSets, TLC

VARIABLES
    pc,          \* position of the script, or of the loader call
    args,        \* the parsed command line (argparse namespace)
    fs,          \* what the hub and the files under ./data hold
    train_data,  \* module-level train_data (line 209)
    valid_data,  \* module-level valid_data
    test_data,   \* module-level test_data
    dataset,     \* module-level dataset: partition name -> records
    trace,       \* calls made into the embedding library, in order
    files,       \* files written by the run: path -> content
    err,         \* the exception that ended the run, or "none"
    call,        \* a direct call of one loader: its name and arguments
    ret          \* what that call returned

vars == <<pc, args, fs, train_data, valid_data, test_data, dataset, trace,
          files, err, call, ret>>

-----------------------------------------------------------------------------
(* Bounds of the model. *)

\* rows per source split / lines per file
MaxRows == 2

-----------------------------------------------------------------------------
(* Python values. *)

NONE == <<>>
Some(v) == <<v>>

IntV(n) == [t |-> "int", v |-> n]
FltV(tenths) == [t |-> "float", v |-> tenths]

Min(a, b) == IF a <= b THEN a ELSE b
Max(a, b) == IF a >= b THEN a ELSE b

\* float(x): an int becomes the float of the same value, a float is kept
PyFloat(x) == IF x.t = "int" THEN FltV(10 * x.v) ELSE x

\* int(x): an int is kept, a float is truncated towards zero
PyInt(x) ==
    IF x.t = "int" THEN x
    ELSE IF x.v >= 0 THEN IntV(x.v \div 10) ELSE IntV(-((-x.v) \div 10))

\* str(x) of a number: "1" for the int 1, "1.0" for the float 1.0
PyStr(x) ==
    IF x.t = "int" THEN ToString(x.v)
    ELSE LET a == IF x.v >= 0 THEN x.v ELSE -x.v
         IN (IF x.v < 0 THEN "-" ELSE "") \o ToString(a \div 10) \o "."
                \o ToString(a % 10)

\* x == 0 in Python: the int 0 and the float 0.0 both equal 0
PyIsZero(x) == x.v = 0

\* d.get(k, default) of a dict given as a function
DictGet(d, k, default) == IF k \in DOMAIN d THEN d[k] ELSE default

\* s[:n] of a list
PySlicePrefix(s, n) ==
    IF n >= 0 THEN SubSeq(s, 1, Min(n, Len(s)))
    ELSE SubSeq(s, 1, Max(0, Len(s) + n))

RECURSIVE Concat(_)
\* the concatenation of a sequence of lists
Concat(ss) == IF ss = <<>> THEN <<>> ELSE Head(ss) \o Concat(Tail(ss))

-----------------------------------------------------------------------------
(* Text: str.strip() and str.split(). *)

WS == {" ", "\t", "\n"}

RECURSIVE LStrip(_)
LStrip(s) == IF s # <<>> /\ Head(s) \in WS THEN LStrip(Tail(s)) ELSE s

RECURSIVE RStrip(_)
RStrip(s) ==
    IF s # <<>> /\ s[Len(s)] \in WS THEN RStrip(SubSeq(s, 1, Len(s) - 1))
    ELSE s

\* s.strip()
Strip(s) == RStrip(LStrip(s))

RECURSIVE SplitFrom(_, _, _)
\* s.split(): the maximal runs of non-whitespace characters, in order
SplitFrom(s, cur, acc) ==
    IF s = <<>> THEN (IF cur = <<>> THEN acc ELSE Append(acc, cur))
    ELSE IF Head(s) \in WS
         THEN SplitFrom(Tail(s), <<>>,
                        IF cur = <<>> THEN acc ELSE Append(acc, cur))
         ELSE SplitFrom(Tail(s), Append(cur, Head(s)), acc)

Split(s) == SplitFrom(s, <<>>, <<>>)

\* set(s.split())
WordSet(s) == {Split(s)[i] : i \in 1..Len(Split(s))}

\* len(set(a.split()) - set(b.split()))
WordDiff(a, b) == Cardinality(WordSet(a) \ WordSet(b))

-----------------------------------------------------------------------------
(* Names fixed by the source. *)

\* the keys of TASK_MAPPING and the hub dataset each names
TASK_MAPPING ==
    [k \in {"NLI-STS", "STS-B", "MRPC", "QQP", "QNLI", "RTE"} |->
        CASE k = "NLI-STS" -> "nli-sts"
          [] k = "STS-B" -> "mteb/stsbenchmark-sts"
          [] k = "MRPC" -> "SetFit/mrpc"
          [] k = "QQP" -> "SetFit/qqp"
          [] k = "QNLI" -> "SetFit/qnli"
          [] k = "RTE" -> "SetFit/rte"]

Splits == {"train", "validation", "test"}

\* the local STS test sets load_sts concatenates, in its order
StsNames ==
    <<"./data/mteb___sts12-sts", "./data/mteb___sts13-sts",
      "./data/mteb___sts14-sts", "./data/mteb___sts15-sts",
      "./data/mteb___sts16-sts", "./data/mteb___stsbenchmark-sts",
      "./data/mteb___sickr-sts">>

LocalStsb == "./data/mteb___stsbenchmark-sts"
CstsPaths ==
    [s \in Splits |->
        CASE s = "train" -> "./data/csts_train.csv"
          [] s = "validation" -> "./data/csts_validation.csv"
          [] s = "test" -> "./data/csts_test.csv"]

JsonlPath(n) ==
    CASE n = "chatglm" -> "data/llm_supervised_stsb/stsb.chatglm.train.jsonl"
      [] n = "llama" -> "data/llm_supervised_stsb/stsb.llama.train.jsonl"
      [] n = "chatgpt" -> "data/llm_supervised_stsb/stsb.chatgpt.train.jsonl"

\* the word-set difference below which a zero-score pair is skipped
SkipNegDiff == 5

-----------------------------------------------------------------------------
(* load_data (lines 73-90). *)

LoadDataCols(task) ==
    IF task \in {"MRPC", "QQP", "QNLI", "RTE"}
    THEN <<"text1", "text2">>
    ELSE <<"sentence1", "sentence2">>

\* the mutant of LoadDataLabelMapping: the table maps each key to itself
LoadDataLabelMappingSame(task) ==
    IF task \in {"QNLI", "RTE"}
    THEN [k \in {"1", "0"} |-> IF k = "1" THEN IntV(1) ELSE IntV(0)]
    ELSE [k \in {} |-> IntV(0)]

LoadDataLabelMapping(task) ==
    IF task \in {"QNLI", "RTE"}
    THEN [k \in {"1", "0"} |-> IF k = "1" THEN IntV(0) ELSE IntV(1)]
    ELSE [k \in {} |-> IntV(0)]

\* the mutant of LoadDataLabel: the STS-B score goes through int()
LoadDataLabelInt(task, obj) ==
    IF task = "STS-B" THEN PyInt(obj.score)
    ELSE PyInt(DictGet(LoadDataLabelMapping(task), PyStr(obj.label),
                       obj.label))

LoadDataLabel(task, obj) ==
    IF task = "STS-B" THEN PyFloat(obj.score)
    ELSE PyInt(DictGet(LoadDataLabelMapping(task), PyStr(obj.label),
                       obj.label))

LoadDataRecord(task, obj) ==
    [text1 |-> obj[LoadDataCols(task)[1]],
     text2 |-> obj[LoadDataCols(task)[2]],
     label |-> LoadDataLabel(task, obj)]

\* the mutant of load_data: a row with a sentence that is empty after
\* trimming is left out
load_data_nonblank(task, hub, split_name) ==
    LET ds == hub[TASK_MAPPING[task]][split_name]
        NonEmpty(r) == Strip(r.text1) # <<>> /\ Strip(r.text2) # <<>>
    IN SelectSeq([i \in 1..Len(ds) |-> LoadDataRecord(task, ds[i])], NonEmpty)

\* load_data(split_name) under args.task, reading the hub
load_data(task, hub, split_name) ==
    LET ds == hub[TASK_MAPPING[task]][split_name]
    IN [i \in 1..Len(ds) |-> LoadDataRecord(task, ds[i])]

-----------------------------------------------------------------------------
(* load_stsb_llm (lines 93-124).  A line of a .jsonl file is some         *)
(* whitespace followed by at most one JSON object.                         *)

StsRecord(obj) ==
    [text1 |-> obj.sentence1, text2 |-> obj.sentence2,
     label |-> PyFloat(obj.score)]

\* line.strip() is empty
JsonlBlank(line) == Strip(line.pad) = <<>> /\ line.obj = NONE

\* the mutant of JsonlSkipped: the threshold is <= instead of <
JsonlSkippedLe(obj, skip_neg) ==
    skip_neg /\ PyIsZero(obj.score)
        /\ WordDiff(obj.sentence1, obj.sentence2) <= SkipNegDiff

\* the condition of line 105
JsonlSkipped(obj, skip_neg) ==
    skip_neg /\ PyIsZero(obj.score)
        /\ WordDiff(obj.sentence1, obj.sentence2) < SkipNegDiff

RECURSIVE JsonlLines(_, _)
\* the loop over the lines of one file (lines 100-107)
JsonlLines(lines, skip_neg) ==
    IF lines = <<>> THEN <<>>
    ELSE LET line == Head(lines)
             rest == JsonlLines(Tail(lines), skip_neg)
         IN IF JsonlBlank(line) THEN rest
            ELSE IF JsonlSkipped(line.obj[1], skip_neg) THEN rest
            ELSE <<StsRecord(line.obj[1])>> \o rest

\* load(fpaths, skip_neg): fpaths is a sequence of paths (a single path
\* is wrapped on lines 96-97)
StsbLlmLoad(jsonl, fpaths, skip_neg) ==
    Concat([i \in 1..Len(fpaths) |-> JsonlLines(jsonl[fpaths[i]], skip_neg)])

Returned(v) == [exc |-> "none", val |-> v]
Raised(e) == [exc |-> e, val |-> <<>>]

load_stsb_llm(task, f, split_name) ==
    IF split_name = "train"
    THEN CASE task = "STS-B-ChatGLM" ->
                Returned(StsbLlmLoad(f.jsonl, <<JsonlPath("chatglm")>>, FALSE))
           [] task = "STS-B-LLaMA" ->
                Returned(StsbLlmLoad(f.jsonl, <<JsonlPath("llama")>>, FALSE))
           [] task = "STS-B-ChatGPT" ->
                Returned(StsbLlmLoad(f.jsonl, <<JsonlPath("chatgpt")>>, TRUE))
           [] task = "STS-B-ALL" ->
                Returned(StsbLlmLoad(f.jsonl,
                    <<JsonlPath("chatgpt"), JsonlPath("llama"),
                      JsonlPath("chatglm")>>, TRUE))
           [] OTHER -> Raised("NotImplementedError")
    ELSE LET ds == f.hub[LocalStsb][split_name]
         IN Returned([i \in 1..Len(ds) |-> StsRecord(ds[i])])

-----------------------------------------------------------------------------
(* load_nli_data (lines 127-169). *)

NliLabelMapping ==
    [k \in {"entailment", "neutral", "contradiction"} |->
        IF k = "contradiction" THEN IntV(0) ELSE IntV(1)]

\* the conditions of lines 138-140 under which a row is appended
NliRowKept(row, exclude_neutral) ==
    /\ row.split = "train" /\ row.label # "neutral"
    /\ ~(exclude_neutral /\ row.label = "neutral")

NliRecord(row) ==
    [text1 |-> Strip(row.sentence1), text2 |-> Strip(row.sentence2),
     label |-> NliLabelMapping[row.label]]

RECURSIVE load_all_nli(_, _)
load_all_nli(rows, exclude_neutral) ==
    IF rows = <<>> THEN <<>>
    ELSE LET rest == load_all_nli(Tail(rows), exclude_neutral)
         IN IF NliRowKept(Head(rows), exclude_neutral)
            THEN <<NliRecord(Head(rows))>> \o rest
            ELSE rest

load_sts(hub) ==
    Concat([n \in 1..Len(StsNames) |->
              [i \in 1..Len(hub[StsNames[n]]["test"]) |->
                  StsRecord(hub[StsNames[n]]["test"][i])]])

\* load_nli_data(exclude_neutral): the pair (load_all_nli(), load_sts())
load_nli_data(f, exclude_neutral) ==
    <<load_all_nli(f.nli, exclude_neutral), load_sts(f.hub)>>

-----------------------------------------------------------------------------
(* load_csts_data (lines 172-206).  sentence_condition_map,                *)
(* sentence_label_map and all_conditions are filled on lines 192-194 and   *)
(* read nowhere: the returned list is built on lines 196-202 alone.        *)

CstsRecord(obj) ==
    [text1 |-> Strip(obj.sentence1), text2 |-> Strip(obj.sentence2),
     label |-> obj.label, condition |-> Strip(obj.condition)]

\* the mutant of CstsLoadData: a row whose (text1, text2, condition) was
\* already output is left out
CstsLoadDataDedup(ds) ==
    LET Key(r) == <<r.text1, r.text2, r.condition>>
        all == [i \in 1..Len(ds) |-> CstsRecord(ds[i])]
        first == {i \in 1..Len(ds) :
                    \A j \in 1..(i - 1) : Key(all[j]) # Key(all[i])}
        F[i \in 0..Len(ds)] ==
            IF i = 0 THEN <<>>
            ELSE IF i \in first THEN Append(F[i - 1], all[i]) ELSE F[i - 1]
    IN F[Len(ds)]

\* the inner load_data(ds)
CstsLoadData(ds) == [i \in 1..Len(ds) |-> CstsRecord(ds[i])]

load_csts_data(f) ==
    <<CstsLoadData(f.csv[CstsPaths["train"]]),
      CstsLoadData(f.csv[CstsPaths["validation"]]),
      CstsLoadData(f.csv[CstsPaths["test"]])>>

-----------------------------------------------------------------------------
(* The inputs the model draws from. *)

RECURSIVE Join(_)
\* the words of ws with one blank between them
Join(ws) ==
    IF ws = <<>> THEN <<>>
    ELSE IF Len(ws) = 1 THEN Head(ws)
    ELSE Head(ws) \o <<" ">> \o Join(Tail(ws))

EMPTY == <<>>
BLANK == <<" ", "\t">>
TxtA == <<"a">>
TxtB == <<"b">>
TxtPadA == <<" ", "a", "\t">>
TxtAB == Join(<<TxtA, TxtB>>)
W4 == Join(<<TxtA, TxtB, <<"c">>, <<"d">>>>)
W5 == Join(<<TxtA, TxtB, <<"c">>, <<"d">>, <<"e">>>>)
W6 == Join(<<TxtA, TxtB, <<"c">>, <<"d">>, <<"e">>, <<"f">>, TxtA>>)

\* every sequence over S of length at most n
SeqsUpTo(S, n) == UNION {[1..k -> S] : k \in 0..n}

EmptyFn == [k \in {} |-> <<>>]

\* rows of the hub dataset of a task, for a run of the script
ScriptRows(task) ==
    IF task = "STS-B"
    THEN {[sentence1 |-> TxtA, sentence2 |-> TxtB, score |-> FltV(25)],
          [sentence1 |-> TxtB, sentence2 |-> TxtAB, score |-> FltV(0)]}
    ELSE {[text1 |-> TxtA, text2 |-> TxtB, label |-> IntV(1)],
          [text1 |-> TxtB, text2 |-> TxtAB, label |-> IntV(0)]}

\* rows of the hub dataset of a task, for a direct call of load_data
LoaderRows(task) ==
    IF task = "STS-B"
    THEN [sentence1 : {TxtPadA, EMPTY, BLANK}, sentence2 : {TxtB, BLANK},
          score : {FltV(0), FltV(25), FltV(50), FltV(51), FltV(-5), IntV(3)}]
    ELSE [text1 : {TxtPadA, EMPTY, BLANK}, text2 : {TxtB, BLANK},
          label : {IntV(-1), IntV(0), IntV(1), IntV(2)}]

StsRow == [sentence1 |-> TxtA, sentence2 |-> TxtAB, score |-> FltV(38)]

NliRows ==
    [split : {"train", "dev"},
     sentence1 : {TxtPadA, BLANK}, sentence2 : {TxtB},
     label : {"entailment", "neutral", "contradiction"}]

ScriptNliRows ==
    [split : {"train", "dev"}, sentence1 : {TxtA}, sentence2 : {TxtB},
     label : {"entailment", "neutral", "contradiction"}]

CstsRows ==
    [sentence1 : {TxtA, TxtPadA, BLANK}, sentence2 : {TxtB},
     condition : {<<"c">>, <<"c", " ">>}, label : {IntV(1), IntV(4)}]

CstsFixedRow ==
    [sentence1 |-> TxtA, sentence2 |-> TxtB, condition |-> <<"c">>,
     label |-> IntV(1)]

JsonlObjs ==
    [sentence1 : {W4, W5, W6}, sentence2 : {EMPTY, TxtA},
     score : {IntV(0), FltV(25)}]

JsonlWide ==
    {[pad |-> <<"\n">>, obj |-> NONE]}
        \cup {[pad |-> <<>>, obj |-> Some(o)] : o \in JsonlObjs}

JsonlSmall ==
    {[pad |-> <<" ", "\n">>, obj |-> NONE],
     [pad |-> <<>>,
      obj |-> Some([sentence1 |-> W5, sentence2 |-> TxtA, score |-> FltV(0)])],
     [pad |-> <<" ">>,
      obj |-> Some([sentence1 |-> W6, sentence2 |-> TxtA, score |-> IntV(0)])]}

Modes == {"train", "test", "test_csts", "eval"}
HubTasks == {"STS-B", "MRPC", "QQP", "QNLI", "RTE"}
CliTasks == DOMAIN TASK_MAPPING \cup {"STS-B-ChatGPT"}
LlmTasks ==
    {"STS-B-ChatGLM", "STS-B-LLaMA", "STS-B-ChatGPT", "STS-B-ALL", "STS-B"}
ModelNames == {"NousResearch/Llama-2-7b-hf", "bert-base-uncased"}
SaveDir == "ckpts"
DebugSizes == {NONE} \cup {Some(n) : n \in -1..2}

\* 'llama' in args.model_name.lower()
HasLlama(name) == name \in {"NousResearch/Llama-2-7b-hf"}

DefaultArgs ==
    [mode |-> "train", task |-> "STS-B", do_eval |-> 1,
     debug_sample_size |-> NONE, model_name |-> "NousResearch/Llama-2-7b-hf",
     save_dir |-> SaveDir]

\* the command lines of the model.  do_eval and model_name are read on the
\* train branch alone (lines 242, 263, 276): in a run that reaches the test
\* or the test_csts branch they stay at their defaults.
ScriptArgs ==
    {a \in [mode : Modes, task : CliTasks, do_eval : {0, 1},
            debug_sample_size : DebugSizes, model_name : ModelNames,
            save_dir : {SaveDir}] :
        (a.task \in DOMAIN TASK_MAPPING /\ a.mode \in {"test", "test_csts"})
            => a.do_eval = DefaultArgs.do_eval
                  /\ a.model_name = DefaultArgs.model_name}

NoFs == [hub |-> EmptyFn, nli |-> <<>>, jsonl |-> EmptyFn, csv |-> EmptyFn]

\* one hub dataset, with the given rows in each split
HubOf(name, bySplit) == [n \in {name} |-> bySplit]

\* what the hub and ./data hold for a run of the script with arguments a
ScriptFs(a) ==
    LET csvs ==
            IF a.mode = "test_csts"
            THEN {[p \in {CstsPaths[s] : s \in Splits} |->
                     IF p = CstsPaths["test"] THEN t ELSE <<>>] :
                  t \in SeqsUpTo({CstsFixedRow}, 1)}
            ELSE {EmptyFn}
        hubs ==
            IF a.task \in HubTasks
            THEN {HubOf(TASK_MAPPING[a.task], d) :
                    d \in [Splits -> SeqsUpTo(ScriptRows(a.task), MaxRows)]}
            ELSE IF a.task = "NLI-STS"
            THEN {[n \in {StsNames[i] : i \in 1..Len(StsNames)} |->
                     [s \in {"test"} |->
                        IF n \in on THEN <<StsRow>> ELSE <<>>]] :
                  on \in SUBSET {StsNames[5], StsNames[6], StsNames[7]}}
            ELSE {EmptyFn}
        nlis ==
            IF a.task = "NLI-STS" THEN SeqsUpTo(ScriptNliRows, MaxRows)
            ELSE {<<>>}
    IN {[hub |-> h, nli |-> n, jsonl |-> EmptyFn, csv |-> c] :
          h \in hubs, n \in nlis, c \in csvs}

NoCall == [fn |-> "none", split_name |-> "train", exclude_neutral |-> TRUE]

-----------------------------------------------------------------------------
(* The script, top to bottom. *)

Init ==
    /\ pc = "check_task"
    /\ args \in ScriptArgs
    /\ fs \in ScriptFs(args)
    /\ train_data = NONE
    /\ valid_data = NONE
    /\ test_data = NONE
    /\ dataset = EmptyFn
    /\ trace = <<>>
    /\ files = EmptyFn
    /\ err = "none"
    /\ call = NoCall
    /\ ret = NONE

\* the run ends with the exception e
Raise(e) == pc' = "error" /\ err' = e

\* lines 58-67: the assert on args.task, then the lookup in TASK_MAPPING
\* (which raises KeyError when the assert is compiled out by python -O)
CheckTask ==
    /\ pc = "check_task"
    /\ IF args.task \in DOMAIN TASK_MAPPING
       THEN pc' = "load" /\ err' = err
       ELSE \E e \in {"AssertionError", "KeyError"} : Raise(e)
    /\ UNCHANGED <<args, fs, train_data, valid_data, test_data, dataset,
                   trace, files, call, ret>>

\* lines 210-213
LoadNliSts ==
    /\ pc = "load" /\ args.task = "NLI-STS"
    /\ train_data' = Some(load_nli_data(fs, TRUE)[1])
    /\ test_data' = Some(load_nli_data(fs, TRUE)[2])
    /\ pc' = "assemble"
    /\ UNCHANGED <<args, fs, valid_data, dataset, trace, files, err, call,
                   ret>>

\* the mutant of EvalAtValidation: MRPC is evaluated on validation data too
EvalAtValidationMrpc(task) == task \in {"MRPC", "QQP", "QNLI", "RTE"}

\* line 218
EvalAtValidation(task) == task \in {"QQP", "QNLI", "RTE"}

\* lines 214-222
LoadSplits ==
    /\ pc = "load" /\ args.task # "NLI-STS"
    /\ train_data' = Some(load_data(args.task, fs.hub, "train"))
    /\ valid_data' = Some(load_data(args.task, fs.hub, "validation"))
    /\ test_data' =
          IF EvalAtValidation(args.task)
          THEN Some(load_data(args.task, fs.hub, "validation"))
          ELSE Some(load_data(args.task, fs.hub, "test"))
    /\ pc' = "assemble"
    /\ UNCHANGED <<args, fs, dataset, trace, files, err, call, ret>>

\* line 229: train_data[:args.debug_sample_size]
DebugSample(data, n) == PySlicePrefix(data, n)

\* lines 224-238
Assemble ==
    /\ pc = "assemble"
    /\ LET train ==
               IF train_data # NONE /\ args.debug_sample_size # NONE
               THEN Some(DebugSample(train_data[1], args.debug_sample_size[1]))
               ELSE train_data
           parts == [train |-> train, validation |-> valid_data,
                     test |-> test_data]
       IN /\ train_data' = train
          /\ dataset' = [p \in {q \in Splits : parts[q] # NONE} |->
                            parts[p][1]]
    /\ pc' = "dispatch"
    /\ UNCHANGED <<args, fs, valid_data, test_data, trace, files, err, call,
                   ret>>

\* lines 240-260: mode train, the model is built
BuildModel ==
    /\ pc = "dispatch" /\ args.mode = "train"
    /\ trace' = Append(trace,
                   IF HasLlama(args.model_name) THEN "AnglE(apply_lora=True)"
                   ELSE "AnglE(apply_lora=False)")
    /\ pc' = "tokenize"
    /\ UNCHANGED <<args, fs, train_data, valid_data, test_data, dataset,
                   files, err, call, ret>>

\* lines 262-266: dataset['train'] is mapped, then dataset['validation']
\* when args.do_eval is set; a missing partition raises KeyError
Tokenize ==
    /\ pc = "tokenize"
    /\ IF "train" \notin DOMAIN dataset
       THEN Raise("KeyError") /\ trace' = trace
       ELSE IF args.do_eval # 0 /\ "validation" \notin DOMAIN dataset
       THEN Raise("KeyError") /\ trace' = Append(trace, "map(train)")
       ELSE /\ trace' = trace \o <<"map(train)">>
                           \o (IF args.do_eval # 0 THEN <<"map(validation)">>
                               ELSE <<>>)
            /\ pc' = "fit" /\ err' = err
    /\ UNCHANGED <<args, fs, train_data, valid_data, test_data, dataset,
                   files, call, ret>>

\* lines 268-287
Fit ==
    /\ pc = "fit"
    /\ trace' = Append(trace, "fit")
    /\ pc' = "done"
    /\ UNCHANGED <<args, fs, train_data, valid_data, test_data, dataset,
                   files, err, call, ret>>

\* the mutant of Test: the branch is taken for every mode but train
TestAnyOtherMode ==
    /\ pc = "dispatch" /\ args.mode # "train"
    /\ trace' = trace \o <<"from_pretrained", "map(test)", "evaluate">>
    /\ pc' = "done" /\ err' = err
    /\ UNCHANGED <<args, fs, train_data, valid_data, test_data, dataset,
                   files, call, ret>>

\* lines 288-293: mode test
Test ==
    /\ pc = "dispatch" /\ args.mode = "test"
    /\ IF "test" \notin DOMAIN dataset
       THEN Raise("KeyError") /\ trace' = Append(trace, "from_pretrained")
       ELSE /\ trace' = trace \o <<"from_pretrained", "map(test)", "evaluate">>
            /\ pc' = "done" /\ err' = err
    /\ UNCHANGED <<args, fs, train_data, valid_data, test_data, dataset,
                   files, call, ret>>

\* the module-level names that hold loaded data when the mode is dispatched
Globals ==
    [n \in {"train_data", "valid_data", "test_data"} |->
        CASE n = "train_data" -> train_data
          [] n = "valid_data" -> valid_data
          [] n = "test_data" -> test_data]

\* the similarities the library can return, in tenths
CosValues == {-10, 0, 10}

PredictionPath == "ckpts/test_prediction.json"

\* lines 294-310: mode test_csts.  The loop of line 298 reads the global
\* csts_test_data, which no line of the script binds.
TestCsts ==
    /\ pc = "dispatch" /\ args.mode = "test_csts"
    /\ trace' = Append(trace, "from_pretrained")
    /\ IF "csts_test_data" \in DOMAIN Globals
       THEN LET data == Globals["csts_test_data"]
            IN /\ \E cos \in [1..Len(data) -> CosValues] :
                    files' = [f \in {PredictionPath} |->
                                [k \in {ToString(i - 1) : i \in 1..Len(data)}
                                   |-> FltV(cos[CHOOSE i \in 1..Len(data) :
                                                  ToString(i - 1) = k])]]
               /\ pc' = "done" /\ err' = err
       ELSE Raise("NameError") /\ files' = files
    /\ UNCHANGED <<args, fs, train_data, valid_data, test_data, dataset,
                   call, ret>>

\* lines 311-312
UnsupportedMode ==
    /\ pc = "dispatch" /\ args.mode \notin {"train", "test", "test_csts"}
    /\ Raise("ValueError")
    /\ UNCHANGED <<args, fs, train_data, valid_data, test_data, dataset,
                   trace, files, call, ret>>

Next ==
    \/ CheckTask
    \/ LoadNliSts
    \/ LoadSplits
    \/ Assemble
    \/ BuildModel
    \/ Tokenize
    \/ Fit
    \/ Test
    \/ TestCsts
    \/ UnsupportedMode

Spec == Init /\ [][Next]_vars

-----------------------------------------------------------------------------
(* Direct calls of the loaders, each on inputs wider than a run of the     *)
(* script gives it.                                                        *)

\* a split of a source, the other splits being empty
OnlySplit(split_name, rows) ==
    [s \in Splits |-> IF s = split_name THEN rows ELSE <<>>]

LoaderCalls ==
    [fn : {"load_data", "load_stsb_llm", "load_nli_data", "load_csts_data"},
     split_name : Splits, exclude_neutral : BOOLEAN]

\* the tasks a direct call of fn is made under
LoaderTasks(c) ==
    CASE c.fn = "load_data" -> HubTasks
      [] c.fn = "load_stsb_llm" -> LlmTasks
      [] OTHER -> {DefaultArgs.task}

\* the sources a direct call c under task reads
LoaderFs(c, task) ==
    CASE c.fn = "load_data" ->
            {[NoFs EXCEPT !.hub =
                 HubOf(TASK_MAPPING[task], OnlySplit(c.split_name, rows))] :
             rows \in SeqsUpTo(LoaderRows(task), MaxRows)}
      [] c.fn = "load_stsb_llm" ->
            IF c.split_name # "train"
            THEN {[NoFs EXCEPT !.hub =
                      HubOf(LocalStsb, OnlySplit(c.split_name, rows))] :
                  rows \in SeqsUpTo(ScriptRows("STS-B"), MaxRows)}
            ELSE IF task = "STS-B-ALL"
            THEN {[NoFs EXCEPT !.jsonl =
                      [q \in {JsonlPath(n) : n \in {"chatgpt", "llama", "chatglm"}}
                         |-> d[q]]] :
                  d \in [{JsonlPath(n) : n \in {"chatgpt", "llama", "chatglm"}}
                           -> SeqsUpTo(JsonlSmall, MaxRows)]}
            ELSE IF task = "STS-B"
            THEN {NoFs}
            ELSE {[NoFs EXCEPT !.jsonl =
                      [q \in {JsonlPath("chatgpt"), JsonlPath("llama"),
                              JsonlPath("chatglm")} |-> lines]] :
                  lines \in SeqsUpTo(JsonlWide, MaxRows)}
      [] c.fn = "load_nli_data" ->
            {[NoFs EXCEPT
                 !.nli = rows,
                 !.hub = [n \in {StsNames[i] : i \in 1..Len(StsNames)} |->
                            [s \in {"test"} |-> sts]]] :
             rows \in SeqsUpTo(NliRows, MaxRows),
             sts \in {<<>>, <<StsRow>>}}
      [] c.fn = "load_csts_data" ->
            {[NoFs EXCEPT
                 !.csv = [q \in {CstsPaths[s] : s \in Splits} |->
                            IF q = CstsPaths[wide] THEN rows
                            ELSE <<CstsFixedRow>>]] :
             rows \in SeqsUpTo(CstsRows, MaxRows), wide \in Splits}

\* split_name is an argument of load_data and load_stsb_llm alone, and
\* exclude_neutral of load_nli_data alone
LoaderCallOk(c) ==
    /\ c.fn \in {"load_nli_data", "load_csts_data"}
          => c.split_name = NoCall.split_name
    /\ c.fn # "load_nli_data" => c.exclude_neutral = NoCall.exclude_neutral

InitLoaders ==
    /\ pc = "call"
    /\ call \in {c \in LoaderCalls : LoaderCallOk(c)}
    /\ \E task \in LoaderTasks(call) :
          /\ args = [DefaultArgs EXCEPT !.task = task]
          /\ fs \in LoaderFs(call, task)
    /\ train_data = NONE
    /\ valid_data = NONE
    /\ test_data = NONE
    /\ dataset = EmptyFn
    /\ trace = <<>>
    /\ files = EmptyFn
    /\ err = "none"
    /\ ret = NONE

CallLoadData ==
    /\ pc = "call" /\ call.fn = "load_data"
    /\ ret' = Some(load_data(args.task, fs.hub, call.split_name))
    /\ pc' = "returned"
    /\ UNCHANGED <<args, fs, train_data, valid_data, test_data, dataset,
                   trace, files, err, call>>

CallLoadStsbLlm ==
    /\ pc = "call" /\ call.fn = "load_stsb_llm"
    /\ LET r == load_stsb_llm(args.task, fs, call.split_name)
       IN IF r.exc = "none"
          THEN ret' = Some(r.val) /\ pc' = "returned" /\ err' = err
          ELSE ret' = ret /\ Raise(r.exc)
    /\ UNCHANGED <<args, fs, train_data, valid_data, test_data, dataset,
                   trace, files, call>>

CallLoadNliData ==
    /\ pc = "call" /\ call.fn = "load_nli_data"
    /\ ret' = Some(load_nli_data(fs, call.exclude_neutral))
    /\ pc' = "returned"
    /\ UNCHANGED <<args, fs, train_data, valid_data, test_data, dataset,
                   trace, files, err, call>>

CallLoadCstsData ==
    /\ pc = "call" /\ call.fn = "load_csts_data"
    /\ ret' = Some(load_csts_data(fs))
    /\ pc' = "returned"
    /\ UNCHANGED <<args, fs, train_data, valid_data, test_data, dataset,
                   trace, files, err, call>>

NextLoaders ==
    \/ CallLoadData
    \/ CallLoadStsbLlm
    \/ CallLoadNliData
    \/ CallLoadCstsData

SpecLoaders == InitLoaders /\ [][NextLoaders]_vars

-----------------------------------------------------------------------------
(* Properties of a run of the script (Spec). *)

Terminated == pc \in {"done", "error"}
TaskKnown == args.task \in DOMAIN TASK_MAPPING
ModeKnown == args.mode \in {"train", "test", "test_csts"}

C2_CstsPredictionsWritten ==
    (Terminated /\ args.mode = "test_csts" /\ TaskKnown) =>
        /\ err = "none"
        /\ PredictionPath \in DOMAIN files
        /\ DOMAIN files[PredictionPath] =
              {ToString(i - 1) : i \in 1..Len(load_csts_data(fs)[3])}

\* C9: in mode train with do_eval = 1 and a known task, the validation
\* partition is in the dataset when line 264 reads it, and the run does
\* not end with an exception before model.fit.
C9_ValidationPresentWhenRead ==
    (args.mode = "train" /\ args.do_eval = 1 /\ TaskKnown) =>
        /\ pc = "tokenize" => "validation" \in DOMAIN dataset
        /\ pc # "error"

\* the sentence columns of a hub row, whatever the task names them
SrcText1(row) == IF "text1" \in DOMAIN row THEN row.text1 ELSE row.sentence1
SrcText2(row) == IF "text2" \in DOMAIN row THEN row.text2 ELSE row.sentence2

\* recs holds one record per row of rows, in the order of rows
SameRows(recs, rows) ==
    /\ Len(recs) = Len(rows)
    /\ \A i \in 1..Len(rows) :
          /\ recs[i].text1 = SrcText1(rows[i])
          /\ recs[i].text2 = SrcText2(rows[i])

ScriptSrc(s) == fs.hub[TASK_MAPPING[args.task]][s]

Assembled ==
    args.task \in HubTasks /\ pc \notin {"check_task", "load", "assemble"}

\* the first n elements of rows (all of them when there are fewer, none
\* when n is negative)
FirstN(rows, n) == SubSeq(rows, 1, Min(Max(n, 0), Len(rows)))

\* rows without its last n elements
AllButLast(rows, n) == SubSeq(rows, 1, Max(0, Len(rows) - n))

\* what C10 says of the validation and test partitions
C10_EvalPartitions ==
    /\ DOMAIN dataset = Splits
    /\ SameRows(dataset["validation"], ScriptSrc("validation"))
    /\ args.task \in {"QQP", "QNLI", "RTE"} =>
          dataset["test"] = dataset["validation"]
    /\ args.task \in {"STS-B", "MRPC"} =>
          SameRows(dataset["test"], ScriptSrc("test"))

\* C10 as stated: test is validation exactly for QQP, QNLI and RTE; each
\* partition holds one record per source row in source order; train is cut
\* to its first debug_sample_size records when the flag is set.
C10_TrainCutToFirstN ==
    Assembled =>
        /\ C10_EvalPartitions
        /\ SameRows(dataset["train"],
                    IF args.debug_sample_size = NONE THEN ScriptSrc("train")
                    ELSE FirstN(ScriptSrc("train"), args.debug_sample_size[1]))

\* C10 as amended: as above, except that train is
\* train_data[:debug_sample_size]: its first debug_sample_size records for
\* a value >= 0, all but its last |debug_sample_size| records for a
\* negative value.
C10_Assembly ==
    Assembled =>
        /\ C10_EvalPartitions
        /\ LET n == args.debug_sample_size
           IN SameRows(dataset["train"],
                  IF n = NONE THEN ScriptSrc("train")
                  ELSE IF n[1] >= 0 THEN FirstN(ScriptSrc("train"), n[1])
                  ELSE AllButLast(ScriptSrc("train"), -n[1]))

\* a QQP run with debug_sample_size = -1 over two train rows, and
\* validation and test splits that differ: train holds the first row, test
\* holds the validation rows
C10_Witness ==
    /\ pc = "done" /\ args.task = "QQP"
    /\ args.debug_sample_size = Some(-1)
    /\ Len(ScriptSrc("train")) = 2 /\ Len(dataset["train"]) = 1
    /\ Len(ScriptSrc("validation")) = 2
    /\ ScriptSrc("validation")[1] # ScriptSrc("validation")[2]
    /\ ScriptSrc("test") # ScriptSrc("validation")
    /\ dataset["test"] = dataset["validation"]

-----------------------------------------------------------------------------
(* Properties of the loaders (SpecLoaders). *)

LoaderReturned(fn) == pc = "returned" /\ call.fn = fn

\* the rows a direct call of load_data reads
LoaderSrc == fs.hub[TASK_MAPPING[args.task]][call.split_name]

NonBlank(s) == \E k \in 1..Len(s) : s[k] \notin WS

\* t is s without its leading and trailing whitespace
IsTrimOf(t, s) ==
    /\ t # <<>> => t[1] \notin WS /\ t[Len(t)] \notin WS
    /\ \E a \in 0..Len(s) :
          /\ a + Len(t) <= Len(s)
          /\ SubSeq(s, a + 1, a + Len(t)) = t
          /\ \A k \in (1..a) \cup ((a + Len(t) + 1)..Len(s)) : s[k] \in WS

CountRec(recs, r) == Cardinality({i \in 1..Len(recs) : recs[i] = r})

\* C3: under QNLI and RTE load_data swaps the labels 0 and 1 (so distinct
\* source labels give distinct labels, and remapping the output label gives
\* the source label back); under MRPC and QQP the label is the source label.
C3_LabelRemap ==
    (LoaderReturned("load_data") /\ args.task # "STS-B") =>
        LET src == LoaderSrc
            out == ret[1]
            Binary(i) == src[i].label \in {IntV(0), IntV(1)}
        IN /\ Len(out) = Len(src)
           /\ \A i \in 1..Len(src) :
                 /\ args.task \in {"QNLI", "RTE"} /\ Binary(i) =>
                       /\ out[i].label = IntV(1 - src[i].label.v)
                       /\ LoadDataLabel(args.task,
                              [src[i] EXCEPT !.label = out[i].label])
                            = src[i].label
                       /\ \A j \in 1..Len(src) :
                             Binary(j) /\ src[j].label # src[i].label =>
                                 out[j].label # out[i].label
                 /\ args.task \in {"MRPC", "QQP"} =>
                       out[i].label = src[i].label

\* load_data under QNLI has returned for a row labelled 0 and a row labelled
\* 1, in that order
C3_Witness ==
    /\ LoaderReturned("load_data") /\ args.task = "QNLI"
    /\ Len(LoaderSrc) = 2
    /\ LoaderSrc[1].label = IntV(0) /\ LoaderSrc[2].label = IntV(1)
    /\ ret[1][1].label = IntV(1) /\ ret[1][2].label = IntV(0)

\* the files load_stsb_llm reads for the train split, in order
LlmPaths ==
    CASE args.task = "STS-B-ChatGLM" -> <<JsonlPath("chatglm")>>
      [] args.task = "STS-B-LLaMA" -> <<JsonlPath("llama")>>
      [] args.task = "STS-B-ChatGPT" -> <<JsonlPath("chatgpt")>>
      [] args.task = "STS-B-ALL" ->
            <<JsonlPath("chatgpt"), JsonlPath("llama"), JsonlPath("chatglm")>>

LlmLines == Concat([i \in 1..Len(LlmPaths) |-> fs.jsonl[LlmPaths[i]]])

\* how many non-blank lines hold an object that becomes the record r
CountLines(lines, r) ==
    Cardinality({i \in 1..Len(lines) :
                    lines[i].obj # NONE /\ StsRecord(lines[i].obj[1]) = r})

LlmTrainReturned ==
    LoaderReturned("load_stsb_llm") /\ call.split_name = "train"

\* C4: load never drops a line whose word-set difference is >= 5: whatever
\* its score and whatever skip_neg is, the output holds the record of such a
\* line as many times as the input holds lines with that record.
C4_LargeDiffKept ==
    LlmTrainReturned =>
        \A i \in 1..Len(LlmLines) :
            LET line == LlmLines[i]
            IN (line.obj # NONE
                  /\ WordDiff(line.obj[1].sentence1, line.obj[1].sentence2)
                        >= 5) =>
                   CountRec(ret[1], StsRecord(line.obj[1]))
                      = CountLines(LlmLines, StsRecord(line.obj[1]))

\* load with skip_neg has kept a zero-score line of difference 5 and dropped
\* a zero-score line of difference 4
C4_Witness ==
    /\ LlmTrainReturned /\ args.task = "STS-B-ChatGPT"
    /\ Len(LlmLines) = 2
    /\ LlmLines[1].obj = Some([sentence1 |-> W5, sentence2 |-> EMPTY,
                               score |-> IntV(0)])
    /\ LlmLines[2].obj = Some([sentence1 |-> W5, sentence2 |-> TxtA,
                               score |-> IntV(0)])
    /\ WordDiff(W5, EMPTY) = 5 /\ WordDiff(W5, TxtA) = 4
    /\ Len(ret[1]) = 1 /\ ret[1][1].text1 = W5 /\ ret[1][1].text2 = EMPTY

\* the (text1, text2, condition) of a C-STS record
CstsKey(r) == <<r.text1, r.text2, r.condition>>

\* the rows of the three C-STS files, in the order load_csts_data returns
\* their records
CstsSrc ==
    <<fs.csv[CstsPaths["train"]], fs.csv[CstsPaths["validation"]],
      fs.csv[CstsPaths["test"]]>>

\* rec is the row with its three text fields trimmed and its label kept
CstsRecordOf(rec, row) ==
    /\ IsTrimOf(rec.text1, row.sentence1)
    /\ IsTrimOf(rec.text2, row.sentence2)
    /\ IsTrimOf(rec.condition, row.condition)
    /\ rec.label = row.label

\* C5 as stated: each partition returned by load_csts_data holds exactly
\* one record per distinct (sentence1, sentence2, condition) after trimming.
C5_OneRecordPerTriple ==
    LoaderReturned("load_csts_data") =>
        \A p \in 1..3 :
            LET out == ret[1][p]
            IN /\ \A i \in 1..Len(CstsSrc[p]) : \E k \in 1..Len(out) :
                     CstsRecordOf(out[k], CstsSrc[p][i])
               /\ \A i, j \in 1..Len(out) :
                     i # j => CstsKey(out[i]) # CstsKey(out[j])

\* C5 as amended: each partition holds exactly one record per input row, in
\* input order, with sentence1, sentence2 and condition trimmed and the
\* label kept; rows that repeat a (sentence1, sentence2, condition) are all
\* kept, so there is one record per distinct triple only when no triple
\* repeats in the input.
C5_OneRecordPerRow ==
    LoaderReturned("load_csts_data") =>
        \A p \in 1..3 :
            LET out == ret[1][p]
            IN /\ Len(out) = Len(CstsSrc[p])
               /\ \A i \in 1..Len(out) : CstsRecordOf(out[i], CstsSrc[p][i])

\* two rows with the same pair and condition after trimming, and different
\* labels, have both been output
C5_Witness ==
    /\ LoaderReturned("load_csts_data")
    /\ Len(CstsSrc[2]) = 2
    /\ CstsSrc[2][1].sentence1 = TxtPadA /\ CstsSrc[2][2].sentence1 = TxtA
    /\ CstsSrc[2][1].condition # CstsSrc[2][2].condition
    /\ Len(ret[1][2]) = 2
    /\ CstsKey(ret[1][2][1]) = CstsKey(ret[1][2][2])
    /\ ret[1][2][1].label # ret[1][2][2].label

\* the value of a number, in tenths
Tenths(x) == IF x.t = "int" THEN 10 * x.v ELSE x.v

\* 0 <= x <= 5, the range of the STS benchmark scores
InBenchmarkRange(x) == 0 <= Tenths(x) /\ Tenths(x) <= 50

StsbReturned == LoaderReturned("load_data") /\ args.task = "STS-B"

\* C6 as stated: under STS-B every record of load_data has a label that is
\* the float of the source score and lies in 0 .. 5.
C6_LabelInRange ==
    StsbReturned =>
        /\ Len(ret[1]) = Len(LoaderSrc)
        /\ \A i \in 1..Len(LoaderSrc) :
              /\ ret[1][i].label.t = "float"
              /\ Tenths(ret[1][i].label) = Tenths(LoaderSrc[i].score)
              /\ InBenchmarkRange(ret[1][i].label)

\* C6 as amended: under STS-B every record of load_data has a label that is
\* the float of the source score; the loader neither clamps nor rejects a
\* score, so the label lies in 0 .. 5 exactly when the source score does.
C6_LabelIsFloatOfScore ==
    StsbReturned =>
        /\ Len(ret[1]) = Len(LoaderSrc)
        /\ \A i \in 1..Len(LoaderSrc) :
              /\ ret[1][i].label.t = "float"
              /\ Tenths(ret[1][i].label) = Tenths(LoaderSrc[i].score)
              /\ InBenchmarkRange(ret[1][i].label)
                    <=> InBenchmarkRange(LoaderSrc[i].score)

\* load_data under STS-B has returned for an int score in the range and a
\* float score above it
C6_Witness ==
    /\ StsbReturned /\ Len(LoaderSrc) = 2
    /\ LoaderSrc[1].score = IntV(3) /\ ret[1][1].label = FltV(30)
    /\ LoaderSrc[2].score = FltV(51) /\ ret[1][2].label = FltV(51)

\* the records a returned loader call placed in its partitions
ReturnedRecords ==
    CASE call.fn = "load_csts_data" ->
            UNION {{ret[1][p][i] : i \in 1..Len(ret[1][p])} : p \in 1..3}
      [] call.fn = "load_nli_data" ->
            UNION {{ret[1][p][i] : i \in 1..Len(ret[1][p])} : p \in 1..2}
      [] OTHER -> {ret[1][i] : i \in 1..Len(ret[1])}

\* C7 as stated: every record of every loader has a text1 and a text2 that
\* are non-empty after trimming.
C7_TextsNonEmpty ==
    pc = "returned" =>
        \A r \in ReturnedRecords :
            /\ {"text1", "text2"} \subseteq DOMAIN r
            /\ NonBlank(r.text1) /\ NonBlank(r.text2)

\* the train rows of AllNLI.tsv that are not labelled neutral
NliTrainRows ==
    {j \in 1..Len(fs.nli) :
        fs.nli[j].split = "train"
            /\ fs.nli[j].label \in {"entailment", "contradiction"}}

\* C7 as amended: every record of every loader has a text1 and a text2, each
\* the source row's sentence: as given by load_data, load_stsb_llm and the
\* load_sts of load_nli_data, trimmed by the load_all_nli of load_nli_data
\* and by load_csts_data.  No loader drops or rejects a row because a
\* sentence is empty or only whitespace, so a text is non-empty after
\* trimming exactly when the source sentence is.
C7_TextsFromSource ==
    pc = "returned" =>
        /\ \A r \in ReturnedRecords : {"text1", "text2"} \subseteq DOMAIN r
        /\ call.fn = "load_data" => SameRows(ret[1], LoaderSrc)
        /\ call.fn = "load_csts_data" =>
              \A p \in 1..3 :
                  /\ Len(ret[1][p]) = Len(CstsSrc[p])
                  /\ \A i \in 1..Len(CstsSrc[p]) :
                        /\ IsTrimOf(ret[1][p][i].text1, CstsSrc[p][i].sentence1)
                        /\ IsTrimOf(ret[1][p][i].text2, CstsSrc[p][i].sentence2)
        /\ call.fn = "load_nli_data" =>
              /\ Len(ret[1][1]) >= Cardinality(NliTrainRows)
              /\ \A i \in 1..Len(ret[1][1]) : \E j \in 1..Len(fs.nli) :
                    /\ fs.nli[j].split = "train"
                    /\ IsTrimOf(ret[1][1][i].text1, fs.nli[j].sentence1)
                    /\ IsTrimOf(ret[1][1][i].text2, fs.nli[j].sentence2)
              /\ SameRows(ret[1][2],
                     Concat([n \in 1..Len(StsNames) |->
                               fs.hub[StsNames[n]]["test"]]))
        /\ (call.fn = "load_stsb_llm" /\ call.split_name # "train") =>
              SameRows(ret[1], fs.hub[LocalStsb][call.split_name])
        /\ (call.fn = "load_stsb_llm" /\ call.split_name = "train") =>
              \A i \in 1..Len(LlmLines) :
                  LET line == LlmLines[i]
                  IN (line.obj # NONE /\ Tenths(line.obj[1].score) # 0) =>
                         CountRec(ret[1], StsRecord(line.obj[1]))
                            = CountLines(LlmLines, StsRecord(line.obj[1]))

\* load_data has returned a record whose text1 is only whitespace and whose
\* text2 is not, for a row that held those sentences
C7_Witness ==
    /\ LoaderReturned("load_data") /\ Len(LoaderSrc) = 1
    /\ SrcText1(LoaderSrc[1]) = BLANK /\ SrcText2(LoaderSrc[1]) = TxtB
    /\ Len(ret[1]) = 1
    /\ ret[1][1].text1 = BLANK /\ ~NonBlank(ret[1][1].text1)

\* C8: with exclude_neutral = True no train row labelled neutral is output;
\* with exclude_neutral = False every train row labelled neutral is output,
\* with label 1; in both cases an entailment row gets label 1, a
\* contradiction row label 0, and a row of another split is never output.
C8_NeutralFilterOptional ==
    LoaderReturned("load_nli_data") =>
        LET Kept(row) ==
                /\ row.split = "train"
                /\ call.exclude_neutral => row.label # "neutral"
            kept == SelectSeq(fs.nli, Kept)
            out == ret[1][1]
        IN /\ Len(out) = Len(kept)
           /\ \A i \in 1..Len(kept) :
                 /\ out[i].label =
                       IntV(IF kept[i].label = "contradiction" THEN 0 ELSE 1)
                 /\ IsTrimOf(out[i].text1, kept[i].sentence1)
                 /\ IsTrimOf(out[i].text2, kept[i].sentence2)

=============================================================================
